---- MODULE Spec2Model ----
(***************************************************************************)
(* Forward kinematics of the hexapod model (src/hexapod/models.py):        *)
(* homogeneous transforms, Point, the three-segment Linkage, the Hexagon   *)
(* body, VirtualHexapod and its find_feet_on_ground heuristic.             *)
(*                                                                         *)
(* Numbers.  The program computes in IEEE doubles.  Here every coordinate  *)
(* and every matrix entry is a fixed-point integer with Scale units per    *)
(* 1.0; measurements (a, b, c, f, m, s) and angles (degrees) stay plain    *)
(* integers, as the caller passes them.  Sines and cosines come from a     *)
(* table over the multiples of 45 degrees, rounded to 1/Scale.  At the     *)
(* multiples of 90 degrees every value is exact.                           *)
(*                                                                         *)
(* Objects.  linkages and hexapods are heaps: functions from an object     *)
(* identity to the object's fields, defined on the constructed objects.    *)
(* Python's None is the empty tuple <<>>, a present value v is <<v>>;      *)
(* the name None of a Point is the string "None".                          *)
(***************************************************************************)
EXTENDS Integers, Sequences, FiniteSets, TLC

VARIABLES
  linkages,   \* stand-alone Linkage objects: id -> fields
  hexapods,   \* VirtualHexapod objects: id -> fields
  supplied,   \* history: per stand-alone Linkage, the angles last passed explicitly
  call,       \* the most recent call: operation, receiver, arguments, return value
  calls       \* number of change_pose calls made so far

vars == <<linkages, hexapods, supplied, call, calls>>

(***************************************************************************)
(* Bounds                                                                  *)
(***************************************************************************)
\* change_pose calls on the stand-alone Linkage in one behaviour
MaxCalls == 2

\* change_pose calls on the legs of the robots in one behaviour
MaxLegCalls == 2

(***************************************************************************)
(* Numbers                                                                 *)
(***************************************************************************)
\* fixed-point units per 1.0
Scale == 1000

\* int -> float
Fx(n) == n * Scale

\* rounding of a double-width product back to fixed point (half away from 0)
Round(n) == IF n >= 0 THEN (2 * n + Scale) \div (2 * Scale)
                      ELSE -((2 * (-n) + Scale) \div (2 * Scale))

\* np.cos(np.radians(theta))
cos_theta(theta) ==
  LET t == theta % 360
  IN  CASE t = 0   -> Scale
        [] t = 45  -> 707
        [] t = 90  -> 0
        [] t = 135 -> -707
        [] t = 180 -> -Scale
        [] t = 225 -> -707
        [] t = 270 -> 0
        [] t = 315 -> 707

\* np.sin(np.radians(theta))
sin_theta(theta) == cos_theta(theta - 90)

None == <<>>

(***************************************************************************)
(* Transform builders                                                      *)
(***************************************************************************)
\* variant: the rotation about y turns the other way (sine signs exchanged)
frame_yrotate_xtranslate_reversed(theta, x) ==
  << << cos_theta(theta), 0, -sin_theta(theta), x >>,
     << 0, Scale, 0, 0 >>,
     << sin_theta(theta), 0, cos_theta(theta), 0 >>,
     << 0, 0, 0, Scale >> >>

\* rotate about y, translate in x
frame_yrotate_xtranslate(theta, x) ==
  << << cos_theta(theta), 0, sin_theta(theta), x >>,
     << 0, Scale, 0, 0 >>,
     << -sin_theta(theta), 0, cos_theta(theta), 0 >>,
     << 0, 0, 0, Scale >> >>

\* rotate about z, translate in x and y
frame_zrotate_xytranslate(theta, x, y) ==
  << << cos_theta(theta), -sin_theta(theta), 0, x >>,
     << sin_theta(theta), cos_theta(theta), 0, y >>,
     << 0, 0, Scale, 0 >>,
     << 0, 0, 0, Scale >> >>

\* np.matmul of two 4x4 matrices
matmul(A, B) ==
  [i \in 1..4 |->
    [j \in 1..4 |->
      Round(A[i][1] * B[1][j] + A[i][2] * B[2][j]
            + A[i][3] * B[3][j] + A[i][4] * B[4][j])]]

\* np.matmul of a 4x4 matrix and a 4-vector
matvec(A, p) ==
  [i \in 1..4 |->
    Round(A[i][1] * p[1] + A[i][2] * p[2] + A[i][3] * p[3] + A[i][4] * p[4])]

(***************************************************************************)
(* Point                                                                   *)
(***************************************************************************)
Point(x, y, z, name) == [x |-> x, y |-> y, z |-> z, name |-> name]

\* the point, given wrt frame_b, expressed wrt frame_a (name is not carried)
get_point_wrt(self, reference_frame) ==
  LET p == matvec(reference_frame, << self.x, self.y, self.z, Scale >>)
  IN  Point(p[1], p[2], p[3], "None")

(***************************************************************************)
(* Linkage                                                                 *)
(***************************************************************************)
store_linkage_attributes(name, a, b, c, new_x_axis, new_origin) ==
  [name |-> name, a |-> a, b |-> b, c |-> c,
   new_origin |-> new_origin, new_x_axis |-> new_x_axis]

\* the fields save_new_pose assigns, from the attributes in self
save_new_pose(self, alpha, beta, gamma) ==
  LET frame_01 == frame_yrotate_xtranslate(-beta, Fx(self.a))
      frame_12 == frame_yrotate_xtranslate(90 - gamma, Fx(self.b))
      frame_23 == frame_yrotate_xtranslate(0, Fx(self.c))
      frame_02 == matmul(frame_01, frame_12)
      frame_03 == matmul(frame_02, frame_23)
      new_frame == frame_zrotate_xytranslate(self.new_x_axis + alpha,
                                             self.new_origin.x, self.new_origin.y)
      p0 == Point(0, 0, 0, "None")
      p1 == get_point_wrt(p0, frame_01)
      p2 == get_point_wrt(p0, frame_02)
      p3 == get_point_wrt(p0, frame_03)
  IN  [name |-> self.name, a |-> self.a, b |-> self.b, c |-> self.c,
       new_origin |-> self.new_origin, new_x_axis |-> self.new_x_axis,
       alpha |-> alpha, beta |-> beta, gamma |-> gamma,
       p0 |-> self.new_origin,
       p1 |-> [get_point_wrt(p1, new_frame) EXCEPT !.name = "coxia"],
       p2 |-> [get_point_wrt(p2, new_frame) EXCEPT !.name = "femur"],
       p3 |-> [get_point_wrt(p3, new_frame) EXCEPT !.name = "tibia"]]

\* Linkage.__init__
Linkage(a, b, c, alpha, beta, gamma, new_x_axis, new_origin, name) ==
  save_new_pose(store_linkage_attributes(name, a, b, c, new_x_axis, new_origin),
                alpha, beta, gamma)

\* Python's `x or y` for x an optional number: None and 0 are falsy
Or(x, y) == IF x = None \/ x[1] = 0 THEN y ELSE x[1]

\* variant: an omitted angle falls back to 0, not to the stored angle
change_pose_defaults(self, alpha, beta, gamma) ==
  save_new_pose(self, Or(alpha, 0), Or(beta, 0), Or(gamma, 0))

\* Linkage.change_pose: the Linkage after the call
change_pose(self, alpha, beta, gamma) ==
  save_new_pose(self, Or(alpha, self.alpha), Or(beta, self.beta), Or(gamma, self.gamma))

toe(self) == self.p3

floor_height(self) == -self.p3.z

(***************************************************************************)
(* Hexagon                                                                 *)
(***************************************************************************)
VERTEX_NAMES ==
  [i \in 0..5 |-> << "right-middle", "right-front", "left-front",
                     "left-middle", "left-back", "right-back" >>[i + 1]]

NEW_X_AXES == [i \in 0..5 |-> << 0, 45, 135, 180, 225, 315 >>[i + 1]]

\* Hexagon.__init__
Hexagon(f, m, s) ==
  [f |-> f, m |-> m, s |-> s,
   cog |-> Point(0, 0, 0, "None"),
   head |-> Point(0, Fx(s), 0, "None"),
   vertices |-> [i \in 0..5 |->
     << Point(Fx(m), 0, 0, "None"),
        Point(Fx(f), Fx(s), 0, "None"),
        Point(Fx(-f), Fx(s), 0, "None"),
        Point(Fx(-m), 0, 0, "None"),
        Point(Fx(-f), Fx(-s), 0, "None"),
        Point(Fx(f), Fx(-s), 0, "None") >>[i + 1]]]

(***************************************************************************)
(* VirtualHexapod                                                          *)
(***************************************************************************)
\* variant: the vertices are paired with the headings one place off
store_neutral_legs_shifted(body, a, b, c) ==
  [i \in 0..5 |->
    Linkage(a, b, c, 0, 0, 0, NEW_X_AXES[i], body.vertices[(i + 1) % 6], VERTEX_NAMES[i])]

\* the legs list store_neutral_legs builds: one neutral Linkage per vertex
store_neutral_legs(body, a, b, c) ==
  [i \in 0..5 |->
    Linkage(a, b, c, 0, 0, 0, NEW_X_AXES[i], body.vertices[i], VERTEX_NAMES[i])]

\* VirtualHexapod.__init__
VirtualHexapod(a, b, c, f, m, s) ==
  [linkage_measurements |-> << a, b, c >>,
   body_measurements |-> << f, m, s >>,
   body |-> Hexagon(f, m, s),
   legs |-> store_neutral_legs(Hexagon(f, m, s), a, b, c)]

take_floor_height(leg) == floor_height(leg)

\* variant: leg index i goes before the indices with an equal key (unstable)
insert_before_ties(s, i, legs) ==
  LET k == Cardinality({p \in 1..Len(s) :
                          take_floor_height(legs[s[p]]) > take_floor_height(legs[i])})
  IN  SubSeq(s, 1, k) \o << i >> \o SubSeq(s, k + 1, Len(s))

\* one step of the stable descending sort: leg index i goes after every
\* index already placed whose key is >= its own
insert(s, i, legs) ==
  LET k == Cardinality({p \in 1..Len(s) :
                          take_floor_height(legs[s[p]]) >= take_floor_height(legs[i])})
  IN  SubSeq(s, 1, k) \o << i >> \o SubSeq(s, k + 1, Len(s))

RECURSIVE sorted_upto(_, _)
sorted_upto(legs, n) ==
  IF n < 0 THEN << >> ELSE insert(sorted_upto(legs, n - 1), n, legs)

\* sorted(self.legs, key=take_floor_height, reverse=True), as leg indices
sorted(legs) == sorted_upto(legs, 5)

tolerance == 2

\* variant: a leg exactly on the threshold is left out
RECURSIVE feet_on_floor_strict(_, _, _, _)
feet_on_floor_strict(legs, sorted_legs, threshold, k) ==
  IF k > Len(sorted_legs) THEN << >>
  ELSE IF floor_height(legs[sorted_legs[k]]) > threshold
       THEN << sorted_legs[k] >>
              \o feet_on_floor_strict(legs, sorted_legs, threshold, k + 1)
       ELSE << >>

\* the for loop over sorted_legs from position k: append while on or above
\* the threshold, break at the first leg below it
RECURSIVE feet_on_floor(_, _, _, _)
feet_on_floor(legs, sorted_legs, threshold, k) ==
  IF k > Len(sorted_legs) THEN << >>
  ELSE IF floor_height(legs[sorted_legs[k]]) >= threshold
       THEN << sorted_legs[k] >> \o feet_on_floor(legs, sorted_legs, threshold, k + 1)
       ELSE << >>

\* variant: a highest floor height of exactly 0 counts as a foot down
no_foot_down_negative(legs, sorted_legs) ==
  floor_height(legs[sorted_legs[1]]) < 0

\* the test of the early return: the highest floor height is <= 0
no_foot_down(legs, sorted_legs) ==
  floor_height(legs[sorted_legs[1]]) <= 0

\* variant: the threshold is taken from the second leg of the sorted list
threshold_second(legs, sorted_legs) ==
  floor_height(legs[sorted_legs[2]]) - Fx(tolerance)

\* sorted_legs[2].floor_height() - tolerance (the third leg; Python counts from 0)
threshold(legs, sorted_legs) ==
  floor_height(legs[sorted_legs[3]]) - Fx(tolerance)

\* VirtualHexapod.find_feet_on_ground: the returned pair; legs are named by
\* their index in self.legs
find_feet_on_ground(self) ==
  LET sorted_legs == sorted(self.legs)
      feet == feet_on_floor(self.legs, sorted_legs, threshold(self.legs, sorted_legs), 1)
      pivot_foot == IF Len(feet) > 0 THEN << feet[1] >> ELSE None
  IN  IF no_foot_down(self.legs, sorted_legs)
      THEN << None, None >>
      ELSE << << feet >>, pivot_foot >>

(***************************************************************************)
(* Inputs                                                                  *)
(***************************************************************************)
\* identities of the stand-alone Linkage and of the VirtualHexapod objects
LinkageIds == {1}
HexapodIds == {1, 2}

\* (a, b, c) of a stand-alone Linkage, and its mount heading
LinkageDims == {<< 100, 80, 120 >>, << 1, 2, 3 >>}
LinkageHeadings == {0, 45}

\* an optional angle argument of change_pose on a stand-alone Linkage
AngleArgs == {None, << 0 >>, << 45 >>, << 90 >>}

\* (a, b, c, f, m, s) of a VirtualHexapod: a regular robot and a robot with
\* negative leg and body measurements
HexapodDims == {<< 1, 2, 3, 1, 2, 3 >>, << -1, 2, -3, 1, -2, 3 >>}

\* (alpha, beta, gamma) arguments of change_pose on a leg of a VirtualHexapod
LegArgs ==
  {<< << 90 >>, None, None >>, << None, << 90 >>, None >>,
   << << 0 >>, << -90 >>, << 90 >> >>}

\* (a, b, c, f, m, s) and the per-leg (beta, gamma) of the posed robots
\* find_feet_on_ground is applied to; with (b, c) = (2, 3) the six poses
\* give the floor heights 3, 5, 1, 0, -1 and -5
FeetDims == {<< 0, 0, 0, 0, 0, 0 >>, << 1, 2, 3, 1, 2, 3 >>}
FeetPoses ==
  {<< 0, 0 >>, << -90, 90 >>, << 90, -90 >>, << 0, 90 >>, << -90, -90 >>, << 90, 90 >>}

NoCall == [op |-> "none", self |-> 0, leg |-> -1, args |-> << >>, ret |-> << >>]

(***************************************************************************)
(* Operations                                                              *)
(***************************************************************************)
Init ==
  /\ linkages = << >>
  /\ hexapods = << >>
  /\ supplied = << >>
  /\ call = NoCall
  /\ calls = 0

\* Linkage(a, b, c, new_x_axis=heading): the other arguments at their defaults
NewLinkage(id, d, heading) ==
  /\ id \notin DOMAIN linkages
  /\ linkages' = linkages @@
       (id :> Linkage(d[1], d[2], d[3], 0, 0, 0, heading, Point(0, 0, 0, "None"), "None"))
  /\ supplied' = supplied @@ (id :> [alpha |-> 0, beta |-> 0, gamma |-> 0])
  /\ call' = [op |-> "Linkage", self |-> id, leg |-> -1, args |-> d, ret |-> << >>]
  /\ UNCHANGED << hexapods, calls >>

\* linkages[id].change_pose(alpha, beta, gamma)
LinkageChangePose(id, alpha, beta, gamma) ==
  /\ id \in DOMAIN linkages
  /\ calls < MaxCalls
  /\ linkages' = [linkages EXCEPT ![id] = change_pose(@, alpha, beta, gamma)]
  /\ supplied' = [supplied EXCEPT
       ![id].alpha = IF alpha = None THEN @ ELSE alpha[1],
       ![id].beta = IF beta = None THEN @ ELSE beta[1],
       ![id].gamma = IF gamma = None THEN @ ELSE gamma[1]]
  /\ call' = [op |-> "Linkage.change_pose", self |-> id, leg |-> -1,
              args |-> << alpha, beta, gamma >>, ret |-> << >>]
  /\ calls' = calls + 1
  /\ UNCHANGED hexapods

\* VirtualHexapod(a, b, c, f, m, s)
NewVirtualHexapod(h, d) ==
  /\ h \notin DOMAIN hexapods
  /\ hexapods' = hexapods @@ (h :> VirtualHexapod(d[1], d[2], d[3], d[4], d[5], d[6]))
  /\ call' = [op |-> "VirtualHexapod", self |-> h, leg |-> -1, args |-> d, ret |-> << >>]
  /\ UNCHANGED << linkages, supplied, calls >>

\* variant: the pose is kept per leg position, shared by all robots
LegChangePoseShared(h, i, alpha, beta, gamma) ==
  /\ h \in DOMAIN hexapods
  /\ calls < MaxLegCalls
  /\ hexapods' = [g \in DOMAIN hexapods |->
       [hexapods[g] EXCEPT !.legs[i] = change_pose(@, alpha, beta, gamma)]]
  /\ call' = [op |-> "change_pose", self |-> h, leg |-> i,
              args |-> << alpha, beta, gamma >>, ret |-> << >>]
  /\ calls' = calls + 1
  /\ UNCHANGED << linkages, supplied >>

\* hexapods[h].legs[i].change_pose(alpha, beta, gamma)
LegChangePose(h, i, alpha, beta, gamma) ==
  /\ h \in DOMAIN hexapods
  /\ calls < MaxLegCalls
  /\ hexapods' = [hexapods EXCEPT ![h].legs[i] = change_pose(@, alpha, beta, gamma)]
  /\ call' = [op |-> "change_pose", self |-> h, leg |-> i,
              args |-> << alpha, beta, gamma >>, ret |-> << >>]
  /\ calls' = calls + 1
  /\ UNCHANGED << linkages, supplied >>

\* hexapods[h].find_feet_on_ground(): sorted() copies the list, nothing is assigned
FindFeetOnGround(h) ==
  /\ h \in DOMAIN hexapods
  /\ call' = [op |-> "find_feet_on_ground", self |-> h, leg |-> -1,
              args |-> << >>, ret |-> find_feet_on_ground(hexapods[h])]
  /\ UNCHANGED << linkages, hexapods, supplied, calls >>

(***************************************************************************)
(* Specifications                                                          *)
(***************************************************************************)
\* robots: construction, re-posing of legs, ground contact
Next ==
  \/ \E h \in HexapodIds, d \in HexapodDims : NewVirtualHexapod(h, d)
  \/ \E h \in HexapodIds, i \in 0..5, args \in LegArgs :
       LegChangePose(h, i, args[1], args[2], args[3])
  \/ \E h \in HexapodIds : FindFeetOnGround(h)

Spec == Init /\ [][Next]_vars

\* one stand-alone Linkage: construction and re-posing
NextLinkage ==
  \/ \E id \in LinkageIds, d \in LinkageDims, heading \in LinkageHeadings :
       NewLinkage(id, d, heading)
  \/ \E id \in LinkageIds, alpha \in AngleArgs, beta \in AngleArgs, gamma \in AngleArgs :
       LinkageChangePose(id, alpha, beta, gamma)

SpecLinkage == Init /\ [][NextLinkage]_vars

\* the robots of FeetDims as constructed
FeetRobot ==
  [d \in FeetDims |-> VirtualHexapod(d[1], d[2], d[3], d[4], d[5], d[6])]

\* leg i of such a robot after legs[i].change_pose(beta=pose[1], gamma=pose[2])
PosedLegs ==
  [d \in FeetDims |-> [i \in 0..5 |-> [pose \in FeetPoses |->
    change_pose(FeetRobot[d].legs[i], None, << pose[1] >>, << pose[2] >>)]]]

\* find_feet_on_ground over posed robots: robot 1, each leg re-posed once
InitFeet ==
  /\ linkages = << >>
  /\ supplied = << >>
  /\ call = NoCall
  /\ calls = 0
  /\ \E d \in FeetDims, pose \in [0..5 -> FeetPoses] :
       hexapods = (1 :> [FeetRobot[d] EXCEPT
                          !.legs = [i \in 0..5 |-> PosedLegs[d][i][pose[i]]]])

NextFeet == \E h \in HexapodIds : FindFeetOnGround(h)

SpecFeet == InitFeet /\ [][NextFeet]_vars

(***************************************************************************)
(* Properties of find_feet_on_ground (SpecFeet)                            *)
(***************************************************************************)
\* floor height of leg i of robot h, and the legs in the order the claims
\* describe: height descending, equal heights by ascending leg index
Height(h, i) == -hexapods[h].legs[i].p3.z

Before(h, i, j) ==
  Height(h, i) > Height(h, j) \/ (Height(h, i) = Height(h, j) /\ i < j)

Rank(h, i) == Cardinality({j \in 0..5 : Before(h, j, i)})

ThirdLargest(h) ==
  CHOOSE v \in {Height(h, i) : i \in 0..5} :
    /\ Cardinality({i \in 0..5 : Height(h, i) > v}) <= 2
    /\ Cardinality({i \in 0..5 : Height(h, i) >= v}) >= 3

Returned(h) == call.op = "find_feet_on_ground" /\ call.self = h

Range(f) == {f[k] : k \in DOMAIN f}

\* C1: when some floor height is > 0, the first result is exactly the legs
\* with floor height >= (third-largest floor height) - 2, each once, listed
\* by floor height descending and, among equal heights, by ascending index
C1_FeetAreTheLegsOnThreshold ==
  \A h \in DOMAIN hexapods :
    (Returned(h) /\ \E i \in 0..5 : Height(h, i) > 0) =>
      /\ call.ret[1] # None
      /\ LET feet == call.ret[1][1]
         IN  /\ Range(feet) = {i \in 0..5 : Height(h, i) >= ThirdLargest(h) - 2 * Scale}
             /\ Len(feet) = Cardinality(Range(feet))
             /\ \A k \in 1..(Len(feet) - 1) : Before(h, feet[k], feet[k + 1])

\* the case of the example: legs 0,1,2 share the largest height, legs 3,4,5
\* are below the threshold, and legs 0,1,2 are returned in that order
C1_Witness ==
  /\ 1 \in DOMAIN hexapods
  /\ Returned(1)
  /\ Height(1, 0) > 0
  /\ \A i \in 0..2 : Height(1, i) = Height(1, 0)
  /\ \A i \in 3..5 : Height(1, i) < Height(1, 0) - 2 * Scale
  /\ call.ret = << << << 0, 1, 2 >> >>, << 0 >> >>

\* C2: (None, None) is returned exactly when all six floor heights are <= 0;
\* with a floor height > 0 both results are non-null
C2_NoneIffNoFootDown ==
  \A h \in DOMAIN hexapods :
    Returned(h) =>
      /\ (call.ret = << None, None >>) <=> (\A i \in 0..5 : Height(h, i) <= 0)
      /\ (\E i \in 0..5 : Height(h, i) > 0) => (call.ret[1] # None /\ call.ret[2] # None)

\* all six feet at or above the body plane, the lowest exactly on it
C2_Witness ==
  /\ 1 \in DOMAIN hexapods
  /\ Returned(1)
  /\ \A i \in 0..5 : Height(1, i) <= 0
  /\ \E i \in 0..5 : Height(1, i) = 0
  /\ \E i \in 0..5 : Height(1, i) < 0
  /\ call.ret = << None, None >>

\* C3: in a non-null result the pivot is the first of the feet and has the
\* largest floor height of the six legs, the smallest index among those
C3_PivotIsFirstAndLowest ==
  \A h \in DOMAIN hexapods :
    (Returned(h) /\ call.ret # << None, None >>) =>
      /\ call.ret[1] # None /\ call.ret[2] # None
      /\ call.ret[2][1] = call.ret[1][1][1]
      /\ \A i \in 0..5 : Height(h, i) <= Height(h, call.ret[2][1])
      /\ \A i \in 0..5 : Height(h, i) = Height(h, call.ret[2][1]) => call.ret[2][1] <= i

\* the largest height is shared by several legs, leg 0 not among them
C3_Witness ==
  /\ 1 \in DOMAIN hexapods
  /\ Returned(1)
  /\ call.ret[2] = << 2 >>
  /\ Height(1, 4) = Height(1, 2) /\ Height(1, 5) = Height(1, 2)
  /\ Height(1, 0) < Height(1, 2)

\* C10: a non-null result lists between three and six legs, each once, and
\* among them the three legs first in the descending order, whatever their
\* floor heights
C10_ThreeLowestAlwaysIncluded ==
  \A h \in DOMAIN hexapods :
    (Returned(h) /\ call.ret # << None, None >>) =>
      /\ call.ret[1] # None
      /\ LET feet == call.ret[1][1]
         IN  /\ Len(feet) >= 3 /\ Len(feet) <= 6
             /\ Len(feet) = Cardinality(Range(feet))
             /\ Range(feet) \subseteq 0..5
             /\ {i \in 0..5 : Rank(h, i) < 3} \subseteq Range(feet)

\* exactly three feet, more than the tolerance apart, the third not below
\* the body plane
C10_Witness ==
  /\ 1 \in DOMAIN hexapods
  /\ Returned(1)
  /\ call.ret[1] # None
  /\ Len(call.ret[1][1]) = 3
  /\ LET feet == call.ret[1][1]
     IN  /\ Height(1, feet[1]) - Height(1, feet[3]) > 2 * Scale
         /\ Height(1, feet[3]) <= 0

(***************************************************************************)
(* Properties of a stand-alone Linkage (SpecLinkage)                       *)
(***************************************************************************)
At(pt, x, y, z) == pt.x = x * Scale /\ pt.y = y * Scale /\ pt.z = z * Scale

\* the Linkage of the closed-form example: a=100, b=80, c=120, neutral pose,
\* mount heading 0, mount origin (0,0,0)
NeutralExample(l) ==
  /\ l.a = 100 /\ l.b = 80 /\ l.c = 120
  /\ l.alpha = 0 /\ l.beta = 0 /\ l.gamma = 0
  /\ l.new_x_axis = 0
  /\ At(l.new_origin, 0, 0, 0)

\* C4: after any sequence of change_pose calls every stored angle is the
\* value last passed explicitly for it (0 included), and the points are
\* those of that pose
C4_AnglesAreTheLastSupplied ==
  \A id \in DOMAIN linkages :
    /\ linkages[id].alpha = supplied[id].alpha
    /\ linkages[id].beta = supplied[id].beta
    /\ linkages[id].gamma = supplied[id].gamma
    /\ linkages[id] = save_new_pose(linkages[id], supplied[id].alpha,
                                    supplied[id].beta, supplied[id].gamma)

\* C5: a change_pose call leaves every angle it omits as it was, and the
\* points after the call are those computed from the resulting angles
C5_OmittedAnglesKept ==
  [][(call'.op = "Linkage.change_pose" /\ calls' = calls + 1) =>
       LET id == call'.self
           old == linkages[id]
           new == linkages'[id]
       IN  /\ call'.args[1] = None => new.alpha = old.alpha
           /\ call'.args[2] = None => new.beta = old.beta
           /\ call'.args[3] = None => new.gamma = old.gamma
           /\ new = save_new_pose(old, new.alpha, new.beta, new.gamma)]_vars

\* a call that passes beta only, on a Linkage whose alpha and gamma were set
\* by an earlier call
C5_Witness ==
  /\ call.op = "Linkage.change_pose"
  /\ call.args[1] = None /\ call.args[2] # None /\ call.args[3] = None
  /\ linkages[call.self].alpha # 0
  /\ linkages[call.self].gamma # 0
  /\ linkages[call.self].beta = call.args[2][1]

\* C7 as stated: the neutral example has p1 = (100,0,0), p2 = (100,80,0),
\* p3 = (100,80,-120)
C7_NeutralPoseAsStated ==
  \A id \in DOMAIN linkages :
    NeutralExample(linkages[id]) =>
      /\ At(linkages[id].p1, 100, 0, 0)
      /\ At(linkages[id].p2, 100, 80, 0)
      /\ At(linkages[id].p3, 100, 80, -120)

\* C7 amended: the neutral example has p1 = (100,0,0), p2 = (180,0,0),
\* p3 = (180,0,-120): coxia and femur in one line along x, tibia straight down
C7_NeutralPose ==
  \A id \in DOMAIN linkages :
    NeutralExample(linkages[id]) =>
      /\ At(linkages[id].p1, 100, 0, 0)
      /\ At(linkages[id].p2, 180, 0, 0)
      /\ At(linkages[id].p3, 180, 0, -120)

\* the example Linkage, as constructed
C7_Witness ==
  /\ call.op = "Linkage"
  /\ call.self \in DOMAIN linkages
  /\ NeutralExample(linkages[call.self])

(***************************************************************************)
(* Properties of the robots (Spec)                                         *)
(***************************************************************************)
\* C6: no robot and no Linkage with a negative measurement is ever created
C6_NoNegativeMeasurement ==
  /\ \A h \in DOMAIN hexapods :
       /\ \A k \in 1..3 : hexapods[h].linkage_measurements[k] >= 0
       /\ \A k \in 1..3 : hexapods[h].body_measurements[k] >= 0
       /\ \A i \in 0..5 : /\ hexapods[h].legs[i].a >= 0
                          /\ hexapods[h].legs[i].b >= 0
                          /\ hexapods[h].legs[i].c >= 0
  /\ \A id \in DOMAIN linkages :
       linkages[id].a >= 0 /\ linkages[id].b >= 0 /\ linkages[id].c >= 0

\* C8: leg i of every robot has p0 at its mount origin, which is vertex i of
\* the body, and the mount heading i of 0, 45, 135, 180, 225, 315
C8_MountFixed ==
  \A h \in DOMAIN hexapods : \A i \in 0..5 :
    /\ hexapods[h].legs[i].p0 = hexapods[h].legs[i].new_origin
    /\ hexapods[h].legs[i].p0 = hexapods[h].body.vertices[i]
    /\ hexapods[h].legs[i].new_x_axis = << 0, 45, 135, 180, 225, 315 >>[i + 1]

\* a robot one of whose legs, not leg 0, has been re-posed twice
C8_Witness ==
  /\ call.op = "change_pose"
  /\ call.leg > 0
  /\ calls = 2
  /\ hexapods[call.self].legs[call.leg].alpha # 0
  /\ hexapods[call.self].legs[call.leg].beta # 0

\* C9: change_pose on leg i of robot h changes no other leg of h, no body
\* and no leg of another robot; find_feet_on_ground changes no robot at all
C9_LegsIndependent ==
  [][/\ (call'.op = "change_pose" /\ calls' = calls + 1) =>
          /\ DOMAIN hexapods' = DOMAIN hexapods
          /\ \A g \in DOMAIN hexapods :
               /\ hexapods'[g].body = hexapods[g].body
               /\ hexapods'[g].linkage_measurements = hexapods[g].linkage_measurements
               /\ hexapods'[g].body_measurements = hexapods[g].body_measurements
               /\ \A j \in 0..5 :
                    (g # call'.self \/ j # call'.leg) =>
                      hexapods'[g].legs[j] = hexapods[g].legs[j]
     /\ call'.op = "find_feet_on_ground" => hexapods' = hexapods]_vars

\* a leg re-posed while another leg of the same robot is away from neutral
\* and a second robot exists
C9_Witness ==
  /\ call.op = "change_pose"
  /\ DOMAIN hexapods = HexapodIds
  /\ \E j \in 0..5 : j # call.leg /\ hexapods[call.self].legs[j].beta # 0
  /\ hexapods[call.self].legs[call.leg].beta # 0

====
